---- MODULE Spec2Model ----
(***************************************************************************)
(* Model of openmc_cad_adapter/surfaces.py: the CAD surface classes, their *)
(* construction from an OpenMC surface (from_openmc_surface) and the       *)
(* emission of a Cubit command sequence for one half-space                 *)
(* (to_cubit_surface).                                                     *)
(*                                                                         *)
(* A command is a record                                                   *)
(*   [op, a, b, s, f, v, dir]                                              *)
(* op  : the command keyword ("brick", "move", "subtract", ...)            *)
(* a,b : the entity ids the command text interpolates (0 = none)           *)
(* s   : an axis / entity-type word, f : the trailing flag of a section    *)
(* v   : the numbers of the command text, each a rational <<num, den>>     *)
(* dir : the direction vector of a "Rotate ... direction" command; on a    *)
(*       move, a non-empty dir d says that v is divided by |d|^2           *)
(***************************************************************************)
EXTENDS Integers, Sequences, FiniteSets, TLC

VARIABLES surface, lastid, call, status, ids, cmds

vars == <<surface, lastid, call, status, ids, cmds>>

(***************************************************************************)
(* Bounds of the model.                                                    *)
(***************************************************************************)
\* the module-level id counter holds a value in 0..MaxLastId when the surface
\* is translated (earlier emissions have advanced it)
MaxLastId == 3
\* centre and apex coordinates are drawn from 0..MaxCoord, plane offsets and
\* distances from -MaxCoord..MaxCoord
MaxCoord == 1

(***************************************************************************)
(* Numbers.  Python floats are kept exact as rationals <<num, den>>.       *)
(***************************************************************************)
Num(n) == <<n, 1>>
Div(n, k) == <<n, k>>
Neg(q) == <<0 - q[1], q[2]>>
Abs(n) == IF n < 0 THEN 0 - n ELSE n
Max2(m, n) == IF m >= n THEN m ELSE n
Max3(t) == Max2(t[1], Max2(t[2], t[3]))
\* math.sqrt on the perfect squares the model draws r2 from
Sqrt(n) == CHOOSE s \in 0..n : s * s = n

(***************************************************************************)
(* Commands.                                                               *)
(***************************************************************************)
NoId == 0

Cmd(op, a, b, s, f, v, dir) ==
    [op |-> op, a |-> a, b |-> b, s |-> s, f |-> f, v |-> v, dir |-> dir]

\* the y and z dimensions exchanged
BrickCmd_permuted(x, y, z) == Cmd("brick", NoId, NoId, "", "", <<Num(x), Num(z), Num(y)>>, <<>>)
BrickCmd(x, y, z) == Cmd("brick", NoId, NoId, "", "", <<Num(x), Num(y), Num(z)>>, <<>>)
\* height and radius exchanged
CylinderCmd_swapped(h, r) == Cmd("cylinder", NoId, NoId, "", "", <<Num(r), Num(h)>>, <<>>)
CylinderCmd(h, r) == Cmd("cylinder", NoId, NoId, "", "", <<Num(h), Num(r)>>, <<>>)
SphereCmd(r) == Cmd("sphere", NoId, NoId, "", "", <<Num(r)>>, <<>>)
TorusCmd(major, minor) == Cmd("torus", NoId, NoId, "", "", <<Num(major), Num(minor)>>, <<>>)
FrustumCmd(h, r) == Cmd("frustum", NoId, NoId, "", "", <<Num(h), Num(r), Num(0)>>, <<>>)
PrismCmd(h, sides, r) == Cmd("prism", NoId, NoId, "", "", <<Num(h), Num(sides), r>>, <<>>)
CopyReflectCmd(id, axis) == Cmd("copy reflect", id, NoId, axis, "", <<>>, <<>>)
MoveCmd(id, x, y, z) == Cmd("move", id, NoId, "", "", <<x, y, z>>, <<>>)
\* move by the vector d * n / |n|^2
MoveAlongCmd(id, d, n) ==
    Cmd("move", id, NoId, "", "", <<Num(d * n[1]), Num(d * n[2]), Num(d * n[3])>>, n)
RotateAboutCmd(id, axis, angle) == Cmd("rotate", id, NoId, axis, "", <<Num(angle)>>, <<>>)
RotateDirectionCmd(id, dir, angle) == Cmd("rotate", id, NoId, "direction", "", <<angle>>, dir)
\* the operands of the subtract exchanged
SubtractCmd_swapped(tool, from) == Cmd("subtract", from, tool, "", "", <<>>, <<>>)
SubtractCmd(tool, from) == Cmd("subtract", tool, from, "", "", <<>>, <<>>)
IntersectCmd(id1, id2) == Cmd("intersect", id1, id2, "", "", <<>>, <<>>)
\* the operands of the unite exchanged
UniteCmd_swapped(id1, id2) == Cmd("unite", id2, id1, "", "", <<>>, <<>>)
UniteCmd(id1, id2) == Cmd("unite", id1, id2, "", "", <<>>, <<>>)
SectionCmd(id, axis, offset, flag) == Cmd("section", id, NoId, axis, flag, <<Num(offset)>>, <<>>)
GetIdCmd(type, id) == Cmd("getid", id, NoId, type, "", <<>>, <<>>)

\* the radius not halved
HexPrismCmd_undivided(inner_world) == PrismCmd(inner_world[3], 6, Num(inner_world[1]))

\* the prism of a hexagonal lattice cell: "create prism height {inner_world[2]}
\* sides 6 radius {inner_world[0] / 2}"
HexPrismCmd(inner_world) == PrismCmd(inner_world[3], 6, Div(inner_world[1], 2))

\* the side test inverted
positive_side_inverted(node) == node.side = "-"
\* the side test as an equality with "+"
positive_side_plus(node) == node.side = "+"

\* the test every class makes of the half-space: node.side != "-"
positive_side(node) == node.side # "-"

(***************************************************************************)
(* The emission state of one to_cubit_surface_inner call: the local        *)
(* command list and the module-level id counter.                           *)
(***************************************************************************)
Start(lastid0) == [cmds |-> <<>>, lastid |-> lastid0]
Add(st, cmd) == [st EXCEPT !.cmds = Append(st.cmds, cmd)]

\* the entity type emit_get_last_id uses when the caller passes none
DefaultEntType == "body"

\* cubit_util.emit_get_last_id: advance the counter, append the command that
\* captures the id of the entity created last; the new id is .lastid
emit_get_last_id(type, st) ==
    [cmds |-> Append(st.cmds, GetIdCmd(type, st.lastid + 1)), lastid |-> st.lastid + 1]

\* geom_util.move: a move command for the body, none for the zero vector
move(id, x, y, z, st) ==
    IF x # 0 \/ y # 0 \/ z # 0
    THEN Add(st, MoveCmd(id, Num(x), Num(y), Num(z)))
    ELSE st

\* geom_util.rotate: a rotation of the body onto the direction (x, y, z)
rotate(id, x, y, z, st) ==
    Add(st, RotateDirectionCmd(id, <<x, y, z>>, Num(0)))

Return(id, st) ==
    [status |-> "returned", ids |-> id, cmds |-> st.cmds, lastid |-> st.lastid]
\* an exception leaves the function: the local command list is lost, the
\* module-level counter keeps what was consumed
Raise(exc, st) ==
    [status |-> exc, ids |-> NoId, cmds |-> <<>>, lastid |-> st.lastid]

(***************************************************************************)
(* Surfaces.                                                               *)
(***************************************************************************)
Blank(kind) ==
    [kind |-> kind, a |-> 0, b |-> 0, c |-> 0, d |-> 0,
     x0 |-> 0, y0 |-> 0, z0 |-> 0, r |-> 0, r2 |-> 0,
     dx |-> 0, dy |-> 0, dz |-> 0]

NoSurface == Blank("none")

(***************************************************************************)
(* CADPlane                                                                *)
(***************************************************************************)
\* the unit of the angles below: 1e-7 degree
AngleUnit == 10 * 1000 * 1000
\* abs_tol=1e-6 of math.isclose, in AngleUnit
AbsTol == 10
\* the default rel_tol=1e-9 of math.isclose, as a divisor
RelTolInv == 1000 * 1000 * 1000

\* the plane normals the model draws (a, b, c) from
Normals ==
    { <<0, 0, 1>>, <<0, 0, 2>>, <<1, 0, 1>>, <<0, 1, 1>>, <<1, 0, 0>>,
      <<0, 0, -1>>, <<3, 0, 200000000>>, <<1, 0, 10000000>> }

\* math.degrees(math.acos(np.dot(nhat, rhat))) in AngleUnit, as IEEE doubles
\* give it on Normals: 0.0, 0.0, 45.00000000000001, 45.00000000000001, 90.0,
\* 180.0, 8.537736462515939e-07, 5.72728773124927e-06
AcosDegrees(n) ==
    CASE n = <<0, 0, 1>> -> 0
      [] n = <<0, 0, 2>> -> 0
      [] n = <<1, 0, 1>> -> 45 * AngleUnit
      [] n = <<0, 1, 1>> -> 45 * AngleUnit
      [] n = <<1, 0, 0>> -> 90 * AngleUnit
      [] n = <<0, 0, -1>> -> 180 * AngleUnit
      [] n = <<3, 0, 200000000>> -> 8
      [] n = <<1, 0, 10000000>> -> 57

\* an exact comparison in place of the tolerance
IsClose_exact(x, y, abs_tol) == x = y

\* math.isclose(x, y, abs_tol=abs_tol) with the default rel_tol
IsClose(x, y, abs_tol) ==
    Abs(x - y) <= Max2(Max2(Abs(x), Abs(y)) \div RelTolInv, abs_tol)

\* np.cross(rhat, nhat) for rhat = (0, 0, 1), before normalisation; the zero
\* vector stands for the nan axis 0/0 leaves
Cross(n) == <<0 - n[2], n[1], 0>>

CADPlane_lreverse(node) == IF node.side = "-" THEN "" ELSE "reverse"

CADPlane_to_cubit_surface_inner(self, ent_type, node, extents, inner_world, hex, lastid0) ==
    LET n == <<self.a, self.b, self.c>>
        max_extent == Max3(extents)
        s1 == Add(Start(lastid0), BrickCmd(2 * max_extent, 2 * max_extent, 2 * max_extent))
        s2 == emit_get_last_id(ent_type, s1)
        id == s2.lastid
        s3 == Add(s2, MoveCmd(id, Num(0), Num(0), Num(0 - max_extent)))
        angle == AcosDegrees(n)
        s4 == IF ~IsClose(angle, 0, AbsTol)
              THEN Add(s3, RotateDirectionCmd(id, Cross(n), Div(angle, AngleUnit)))
              ELSE s3
        \* tvec = distance * nhat = (d / |n|) * (n / |n|)
        s5 == Add(s4, MoveAlongCmd(id, self.d, n))
        s6 == Add(s5, BrickCmd(extents[1], extents[2], extents[3]))
        s7 == emit_get_last_id(ent_type, s6)
        wid == s7.lastid
        s8 == IF positive_side(node)
              THEN Add(s7, SubtractCmd(id, wid))
              ELSE Add(s7, IntersectCmd(id, wid))
    IN  Return(wid, s8)

CADPlane_from_openmc_surface_inner(plane) ==
    [Blank("Plane") EXCEPT !.a = plane.a, !.b = plane.b, !.c = plane.c, !.d = plane.d]

(***************************************************************************)
(* CADXPlane, CADYPlane, CADZPlane                                         *)
(***************************************************************************)
\* the flag of CADPlane.lreverse
CADXPlane_reverse_l(node) == IF node.side = "-" THEN "" ELSE "reverse"
CADXPlane_reverse(node) == IF node.side = "-" THEN "reverse" ELSE ""

CADXPlane_to_cubit_surface_inner(self, ent_type, node, extents, inner_world, hex, lastid0) ==
    LET s1 == Add(Start(lastid0), BrickCmd(extents[1], extents[2], extents[3]))
        s2 == emit_get_last_id(ent_type, s1)
        id == s2.lastid
        s3 == Add(s2, SectionCmd(id, "x", self.x0, CADXPlane_reverse(node)))
    IN  Return(id, s3)

CADXPlane_from_openmc_surface_inner(plane) ==
    [Blank("XPlane") EXCEPT !.x0 = plane.x0]

CADYPlane_reverse(node) == IF node.side = "-" THEN "reverse" ELSE ""

CADYPlane_to_cubit_surface_inner(self, ent_type, node, extents, inner_world, hex, lastid0) ==
    LET s1 == Add(Start(lastid0), BrickCmd(extents[1], extents[2], extents[3]))
        s2 == emit_get_last_id(ent_type, s1)
        id == s2.lastid
        s3 == Add(s2, SectionCmd(id, "y", self.y0, CADYPlane_reverse(node)))
    IN  Return(id, s3)

CADYPlane_from_openmc_surface_inner(plane) ==
    [Blank("YPlane") EXCEPT !.y0 = plane.y0]

CADZPlane_reverse(node) == IF node.side = "-" THEN "reverse" ELSE ""

CADZPlane_to_cubit_surface_inner(self, ent_type, node, extents, inner_world, hex, lastid0) ==
    LET s1 == Add(Start(lastid0), BrickCmd(extents[1], extents[2], extents[3]))
        s2 == emit_get_last_id(ent_type, s1)
        id == s2.lastid
        s3 == Add(s2, SectionCmd(id, "z", self.z0, CADZPlane_reverse(node)))
    IN  Return(id, s3)

CADZPlane_from_openmc_surface_inner(plane) ==
    [Blank("ZPlane") EXCEPT !.z0 = plane.z0]

(***************************************************************************)
(* CADCylinder, CADXCylinder, CADYCylinder, CADZCylinder                   *)
(***************************************************************************)
\* the truth value Python gives inner_world: None and () are false
Truthy(inner_world) == inner_world # <<>>

CADCylinder_to_cubit_surface_inner(self, ent_type, node, extents, inner_world, hex, lastid0) ==
    LET h == IF Truthy(inner_world) THEN inner_world[3] ELSE extents[3]
        s1 == Add(Start(lastid0), CylinderCmd(h, self.r))
        s2 == emit_get_last_id(DefaultEntType, s1)
        id == s2.lastid
        s3 == s2
        \* the prism of the hex branch
        p1 == Add(s3, HexPrismCmd(inner_world))
        p2 == emit_get_last_id(ent_type, p1)
        p3 == Add(p2, RotateAboutCmd(p2.lastid, "z", 30))
        p4 == p3
        \* the brick of the inner world
        b1 == Add(s3, BrickCmd(inner_world[1], inner_world[2], inner_world[3]))
        b2 == emit_get_last_id(ent_type, b1)
        ws == IF hex THEN p4 ELSE b2
        wid == ws.lastid
        s4 == Add(ws, SubtractCmd(id, wid))
    IN  IF positive_side(node)
        THEN IF Truthy(inner_world)
             THEN Return(wid, move(wid, self.x0, self.y0, self.z0,
                                   rotate(wid, self.dx, self.dy, self.dz, s4)))
             \* line 218 reads the name w, which no scope defines
             ELSE Raise("NameError", s3)
        ELSE Return(id, move(id, self.x0, self.y0, self.z0,
                             rotate(id, self.dx, self.dy, self.dz, s3)))

CADCylinder_from_openmc_surface_inner(cyl) ==
    [Blank("Cylinder") EXCEPT !.r = cyl.r, !.x0 = cyl.x0, !.y0 = cyl.y0, !.z0 = cyl.z0,
                              !.dx = cyl.dx, !.dy = cyl.dy, !.dz = cyl.dz]

CADXCylinder_to_cubit_surface_inner(self, ent_type, node, extents, inner_world, hex, lastid0) ==
    LET h == IF Truthy(inner_world) THEN inner_world[1] ELSE extents[1]
        s1 == Add(Start(lastid0), CylinderCmd(h, self.r))
        s2 == emit_get_last_id(ent_type, s1)
        id == s2.lastid
        s3 == Add(s2, RotateAboutCmd(id, "y", 90))
        \* the prism of the hex branch
        p1 == Add(s3, HexPrismCmd(inner_world))
        p2 == emit_get_last_id(ent_type, p1)
        p3 == Add(p2, RotateAboutCmd(p2.lastid, "z", 30))
        p4 == Add(p3, RotateAboutCmd(p2.lastid, "y", 90))
        \* the brick of the inner world
        b1 == Add(s3, BrickCmd(inner_world[1], inner_world[2], inner_world[3]))
        b2 == emit_get_last_id(ent_type, b1)
        \* the brick of the world
        e1 == Add(s3, BrickCmd(extents[1], extents[2], extents[3]))
        e2 == emit_get_last_id(ent_type, e1)
        ws == IF Truthy(inner_world) THEN (IF hex THEN p4 ELSE b2) ELSE e2
        wid == ws.lastid
        s4 == Add(ws, SubtractCmd(id, wid))
    IN  IF positive_side(node)
        THEN Return(wid, move(wid, 0, self.y0, self.z0, s4))
        ELSE Return(id, move(id, 0, self.y0, self.z0, s3))

CADXCylinder_from_openmc_surface_inner(cyl) ==
    [Blank("XCylinder") EXCEPT !.r = cyl.r, !.y0 = cyl.y0, !.z0 = cyl.z0]

CADYCylinder_to_cubit_surface_inner(self, ent_type, node, extents, inner_world, hex, lastid0) ==
    LET h == IF Truthy(inner_world) THEN inner_world[2] ELSE extents[2]
        s1 == Add(Start(lastid0), CylinderCmd(h, self.r))
        s2 == emit_get_last_id(ent_type, s1)
        id == s2.lastid
        s3 == Add(s2, RotateAboutCmd(id, "x", 90))
        \* the prism of the hex branch
        p1 == Add(s3, HexPrismCmd(inner_world))
        p2 == emit_get_last_id(ent_type, p1)
        p3 == Add(p2, RotateAboutCmd(p2.lastid, "z", 30))
        p4 == Add(p3, RotateAboutCmd(p2.lastid, "x", 90))
        \* the brick of the inner world
        b1 == Add(s3, BrickCmd(inner_world[1], inner_world[2], inner_world[3]))
        b2 == emit_get_last_id(ent_type, b1)
        \* the brick of the world
        e1 == Add(s3, BrickCmd(extents[1], extents[2], extents[3]))
        e2 == emit_get_last_id(ent_type, e1)
        ws == IF Truthy(inner_world) THEN (IF hex THEN p4 ELSE b2) ELSE e2
        wid == ws.lastid
        s4 == Add(ws, SubtractCmd(id, wid))
    IN  IF positive_side(node)
        THEN Return(wid, move(wid, self.x0, 0, self.z0, s4))
        ELSE Return(id, move(id, self.x0, 0, self.z0, s3))

CADYCylinder_from_openmc_surface_inner(cyl) ==
    [Blank("YCylinder") EXCEPT !.r = cyl.r, !.x0 = cyl.x0, !.z0 = cyl.z0]

CADZCylinder_to_cubit_surface_inner(self, ent_type, node, extents, inner_world, hex, lastid0) ==
    LET h == IF Truthy(inner_world) THEN inner_world[3] ELSE extents[3]
        s1 == Add(Start(lastid0), CylinderCmd(h, self.r))
        s2 == emit_get_last_id(ent_type, s1)
        id == s2.lastid
        s3 == s2
        \* the prism of the hex branch
        p1 == Add(s3, HexPrismCmd(inner_world))
        p2 == emit_get_last_id(ent_type, p1)
        p3 == Add(p2, RotateAboutCmd(p2.lastid, "z", 30))
        p4 == p3
        \* the brick of the inner world
        b1 == Add(s3, BrickCmd(inner_world[1], inner_world[2], inner_world[3]))
        b2 == emit_get_last_id(ent_type, b1)
        \* the brick of the world
        e1 == Add(s3, BrickCmd(extents[1], extents[2], extents[3]))
        e2 == emit_get_last_id(ent_type, e1)
        ws == IF Truthy(inner_world) THEN (IF hex THEN p4 ELSE b2) ELSE e2
        wid == ws.lastid
        s4 == Add(ws, SubtractCmd(id, wid))
    IN  IF positive_side(node)
        THEN Return(wid, move(wid, self.x0, self.y0, 0, s4))
        ELSE Return(id, move(id, self.x0, self.y0, 0, s3))

CADZCylinder_from_openmc_surface_inner(cyl) ==
    [Blank("ZCylinder") EXCEPT !.r = cyl.r, !.x0 = cyl.x0, !.y0 = cyl.y0]

(***************************************************************************)
(* CADSphere                                                               *)
(***************************************************************************)
\* the id of the brick not captured: the id captured last is used for it
CADSphere_to_cubit_surface_inner_uncaptured(self, ent_type, node, extents, inner_world, hex, lastid0) ==
    LET s1 == Add(Start(lastid0), SphereCmd(self.r))
        s2 == emit_get_last_id(ent_type, s1)
        id == s2.lastid
        s3 == move(id, self.x0, self.y0, self.z0, s2)
        s4 == Add(s3, BrickCmd(extents[1], extents[2], extents[3]))
        wid == s4.lastid
        s6 == Add(s4, SubtractCmd(id, wid))
    IN  IF positive_side(node) THEN Return(wid, s6) ELSE Return(id, s3)

CADSphere_to_cubit_surface_inner(self, ent_type, node, extents, inner_world, hex, lastid0) ==
    LET s1 == Add(Start(lastid0), SphereCmd(self.r))
        s2 == emit_get_last_id(ent_type, s1)
        id == s2.lastid
        s3 == move(id, self.x0, self.y0, self.z0, s2)
        s4 == Add(s3, BrickCmd(extents[1], extents[2], extents[3]))
        s5 == emit_get_last_id(ent_type, s4)
        wid == s5.lastid
        s6 == Add(s5, SubtractCmd(id, wid))
    IN  IF positive_side(node) THEN Return(wid, s6) ELSE Return(id, s3)

CADSphere_from_openmc_surface_inner(sphere) ==
    [Blank("Sphere") EXCEPT !.r = sphere.r, !.x0 = sphere.x0, !.y0 = sphere.y0,
                            !.z0 = sphere.z0]

(***************************************************************************)
(* CADCone, CADXCone, CADYCone, CADZCone                                   *)
(***************************************************************************)
\* CADCone.from_openmc_surface raises NotImplementedError: TRUE when it raises
CADCone_from_openmc_surface(src) == TRUE

CADXCone_to_cubit_surface_inner(self, ent_type, node, extents, inner_world, hex, lastid0) ==
    LET s1 == Add(Start(lastid0), FrustumCmd(extents[1], Sqrt(self.r2) * extents[1]))
        s2 == emit_get_last_id(ent_type, s1)
        id == s2.lastid
        s3 == Add(s2, MoveCmd(id, Num(0), Num(0), Neg(Div(extents[1], 2))))
        s4 == Add(s3, CopyReflectCmd(id, "z"))
        s5 == emit_get_last_id(ent_type, s4)
        ids2 == s5.lastid
        s6 == Add(s5, UniteCmd(id, ids2))
        s7 == Add(s6, RotateAboutCmd(id, "y", 90))
        s8 == Add(s7, MoveCmd(id, Num(self.x0), Num(self.y0), Num(self.z0)))
        s9 == Add(s8, BrickCmd(extents[1], extents[2], extents[3]))
        s10 == emit_get_last_id(ent_type, s9)
        wid == s10.lastid
        s11 == Add(s10, SubtractCmd(id, wid))
    IN  IF positive_side(node) THEN Return(wid, s11) ELSE Return(id, s8)

CADXCone_from_openmc_surface_inner(src) ==
    [Blank("XCone") EXCEPT !.x0 = src.x0, !.y0 = src.y0, !.z0 = src.z0, !.r2 = src.r2]

CADYCone_to_cubit_surface_inner(self, ent_type, node, extents, inner_world, hex, lastid0) ==
    LET s1 == Add(Start(lastid0), FrustumCmd(extents[2], Sqrt(self.r2) * extents[2]))
        s2 == emit_get_last_id(ent_type, s1)
        id == s2.lastid
        s3 == Add(s2, MoveCmd(id, Num(0), Num(0), Neg(Div(extents[2], 2))))
        s4 == Add(s3, CopyReflectCmd(id, "z"))
        s5 == emit_get_last_id(ent_type, s4)
        ids2 == s5.lastid
        s6 == Add(s5, UniteCmd(id, ids2))
        s7 == Add(s6, RotateAboutCmd(id, "x", 90))
        s8 == Add(s7, MoveCmd(id, Num(self.x0), Num(self.y0), Num(self.z0)))
        s9 == Add(s8, BrickCmd(extents[1], extents[2], extents[3]))
        s10 == emit_get_last_id(ent_type, s9)
        wid == s10.lastid
        s11 == Add(s10, SubtractCmd(id, wid))
    IN  IF positive_side(node) THEN Return(wid, s11) ELSE Return(id, s8)

CADYCone_from_openmc_surface_inner(src) ==
    [Blank("YCone") EXCEPT !.x0 = src.x0, !.y0 = src.y0, !.z0 = src.z0, !.r2 = src.r2]

CADZCone_to_cubit_surface_inner(self, ent_type, node, extents, inner_world, hex, lastid0) ==
    LET s1 == Add(Start(lastid0), FrustumCmd(extents[3], Sqrt(self.r2) * extents[3]))
        s2 == emit_get_last_id(ent_type, s1)
        id == s2.lastid
        s3 == Add(s2, MoveCmd(id, Num(0), Num(0), Neg(Div(extents[3], 2))))
        s4 == Add(s3, CopyReflectCmd(id, "z"))
        s5 == emit_get_last_id(ent_type, s4)
        ids2 == s5.lastid
        s6 == Add(s5, UniteCmd(id, ids2))
        s7 == s6
        s8 == Add(s7, MoveCmd(id, Num(self.x0), Num(self.y0), Num(self.z0)))
        s9 == Add(s8, BrickCmd(extents[1], extents[2], extents[3]))
        s10 == emit_get_last_id(ent_type, s9)
        wid == s10.lastid
        s11 == Add(s10, SubtractCmd(id, wid))
    IN  IF positive_side(node) THEN Return(wid, s11) ELSE Return(id, s8)

CADZCone_from_openmc_surface_inner(src) ==
    [Blank("ZCone") EXCEPT !.x0 = src.x0, !.y0 = src.y0, !.z0 = src.z0, !.r2 = src.r2]

(***************************************************************************)
(* CADTorus, CADXTorus, CADYTorus, CADZTorus                               *)
(***************************************************************************)
\* the check left out
CADTorus_check_coeffs_absent(self) == TRUE

\* check_coeffs: TRUE when it returns, FALSE when it raises ValueError
CADTorus_check_coeffs(self) == ~(self.b # self.c)

CADTorus_from_openmc_surface_inner(kind, src) ==
    [Blank(kind) EXCEPT !.x0 = src.x0, !.y0 = src.y0, !.z0 = src.z0,
                        !.a = src.a, !.b = src.b, !.c = src.c]

CADXTorus_to_cubit_surface_inner(self, ent_type, node, extents, inner_world, hex, lastid0) ==
    LET s1 == Add(Start(lastid0), TorusCmd(self.a, self.b))
        s2 == emit_get_last_id(ent_type, s1)
        id == s2.lastid
        s3 == Add(s2, RotateAboutCmd(id, "y", 90))
        s4 == Add(s3, BrickCmd(extents[1], extents[2], extents[3]))
        s5 == emit_get_last_id(ent_type, s4)
        wid == s5.lastid
        s6 == Add(s5, SubtractCmd(id, wid))
    IN  IF ~CADTorus_check_coeffs(self)
        THEN Raise("ValueError", Start(lastid0))
        ELSE IF positive_side(node)
             THEN Return(wid, move(wid, self.x0, self.y0, self.z0, s6))
             ELSE Return(id, move(id, self.x0, self.y0, self.z0, s3))

CADYTorus_to_cubit_surface_inner(self, ent_type, node, extents, inner_world, hex, lastid0) ==
    LET s1 == Add(Start(lastid0), TorusCmd(self.a, self.b))
        s2 == emit_get_last_id(ent_type, s1)
        id == s2.lastid
        s3 == Add(s2, RotateAboutCmd(id, "x", 90))
        s4 == Add(s3, BrickCmd(extents[1], extents[2], extents[3]))
        s5 == emit_get_last_id(ent_type, s4)
        wid == s5.lastid
        s6 == Add(s5, SubtractCmd(id, wid))
    IN  IF ~CADTorus_check_coeffs(self)
        THEN Raise("ValueError", Start(lastid0))
        ELSE IF positive_side(node)
             THEN Return(wid, move(wid, self.x0, self.y0, self.z0, s6))
             ELSE Return(id, move(id, self.x0, self.y0, self.z0, s3))

\* the torus moved to its centre before the brick is subtracted from
CADZTorus_to_cubit_surface_inner_moved_first(self, ent_type, node, extents, inner_world, hex, lastid0) ==
    LET s1 == Add(Start(lastid0), TorusCmd(self.a, self.b))
        s2 == emit_get_last_id(ent_type, s1)
        id == s2.lastid
        s3 == move(id, self.x0, self.y0, self.z0, s2)
        s4 == Add(s3, BrickCmd(extents[1], extents[2], extents[3]))
        s5 == emit_get_last_id(ent_type, s4)
        wid == s5.lastid
        s6 == Add(s5, SubtractCmd(id, wid))
    IN  IF ~CADTorus_check_coeffs(self)
        THEN Raise("ValueError", Start(lastid0))
        ELSE IF positive_side(node) THEN Return(wid, s6) ELSE Return(id, s3)

CADZTorus_to_cubit_surface_inner(self, ent_type, node, extents, inner_world, hex, lastid0) ==
    LET s1 == Add(Start(lastid0), TorusCmd(self.a, self.b))
        s2 == emit_get_last_id(ent_type, s1)
        id == s2.lastid
        s3 == s2
        s4 == Add(s3, BrickCmd(extents[1], extents[2], extents[3]))
        s5 == emit_get_last_id(ent_type, s4)
        wid == s5.lastid
        s6 == Add(s5, SubtractCmd(id, wid))
    IN  IF ~CADTorus_check_coeffs(self)
        THEN Raise("ValueError", Start(lastid0))
        ELSE IF positive_side(node)
             THEN Return(wid, move(wid, self.x0, self.y0, self.z0, s6))
             ELSE Return(id, move(id, self.x0, self.y0, self.z0, s3))

(***************************************************************************)
(* CADSurface: the two entry points, dispatched on the class.              *)
(***************************************************************************)
PlaneKinds == {"XPlane", "YPlane", "ZPlane"}
CylinderKinds == {"Cylinder", "XCylinder", "YCylinder", "ZCylinder"}
AxisCylinderKinds == {"XCylinder", "YCylinder", "ZCylinder"}
ConeKinds == {"XCone", "YCone", "ZCone"}
TorusKinds == {"XTorus", "YTorus", "ZTorus"}
\* _CAD_SURFACES
CAD_SURFACES ==
    {"Plane", "Sphere"} \cup PlaneKinds \cup CylinderKinds \cup ConeKinds \cup TorusKinds
\* the classes of the module: _CAD_SURFACES and the unsupported CADCone
Classes == CAD_SURFACES \cup {"Cone"}

\* to_cubit_surface: the class's to_cubit_surface_inner, its result unchanged
CADSurface_to_cubit_surface(self, ent_type, node, extents, inner_world, hex, lastid0) ==
    CASE self.kind = "Plane" ->
           CADPlane_to_cubit_surface_inner(self, ent_type, node, extents, inner_world, hex, lastid0)
      [] self.kind = "XPlane" ->
           CADXPlane_to_cubit_surface_inner(self, ent_type, node, extents, inner_world, hex, lastid0)
      [] self.kind = "YPlane" ->
           CADYPlane_to_cubit_surface_inner(self, ent_type, node, extents, inner_world, hex, lastid0)
      [] self.kind = "ZPlane" ->
           CADZPlane_to_cubit_surface_inner(self, ent_type, node, extents, inner_world, hex, lastid0)
      [] self.kind = "Cylinder" ->
           CADCylinder_to_cubit_surface_inner(self, ent_type, node, extents, inner_world, hex, lastid0)
      [] self.kind = "XCylinder" ->
           CADXCylinder_to_cubit_surface_inner(self, ent_type, node, extents, inner_world, hex, lastid0)
      [] self.kind = "YCylinder" ->
           CADYCylinder_to_cubit_surface_inner(self, ent_type, node, extents, inner_world, hex, lastid0)
      [] self.kind = "ZCylinder" ->
           CADZCylinder_to_cubit_surface_inner(self, ent_type, node, extents, inner_world, hex, lastid0)
      [] self.kind = "Sphere" ->
           CADSphere_to_cubit_surface_inner(self, ent_type, node, extents, inner_world, hex, lastid0)
      [] self.kind = "XCone" ->
           CADXCone_to_cubit_surface_inner(self, ent_type, node, extents, inner_world, hex, lastid0)
      [] self.kind = "YCone" ->
           CADYCone_to_cubit_surface_inner(self, ent_type, node, extents, inner_world, hex, lastid0)
      [] self.kind = "ZCone" ->
           CADZCone_to_cubit_surface_inner(self, ent_type, node, extents, inner_world, hex, lastid0)
      [] self.kind = "XTorus" ->
           CADXTorus_to_cubit_surface_inner(self, ent_type, node, extents, inner_world, hex, lastid0)
      [] self.kind = "YTorus" ->
           CADYTorus_to_cubit_surface_inner(self, ent_type, node, extents, inner_world, hex, lastid0)
      [] self.kind = "ZTorus" ->
           CADZTorus_to_cubit_surface_inner(self, ent_type, node, extents, inner_world, hex, lastid0)

\* from_openmc_surface: the class's from_openmc_surface_inner; CADCone raises
CADSurface_from_openmc_surface(cls, src) ==
    CASE cls = "Plane" -> CADPlane_from_openmc_surface_inner(src)
      [] cls = "XPlane" -> CADXPlane_from_openmc_surface_inner(src)
      [] cls = "YPlane" -> CADYPlane_from_openmc_surface_inner(src)
      [] cls = "ZPlane" -> CADZPlane_from_openmc_surface_inner(src)
      [] cls = "Cylinder" -> CADCylinder_from_openmc_surface_inner(src)
      [] cls = "XCylinder" -> CADXCylinder_from_openmc_surface_inner(src)
      [] cls = "YCylinder" -> CADYCylinder_from_openmc_surface_inner(src)
      [] cls = "ZCylinder" -> CADZCylinder_from_openmc_surface_inner(src)
      [] cls = "Sphere" -> CADSphere_from_openmc_surface_inner(src)
      [] cls = "XCone" -> CADXCone_from_openmc_surface_inner(src)
      [] cls = "YCone" -> CADYCone_from_openmc_surface_inner(src)
      [] cls = "ZCone" -> CADZCone_from_openmc_surface_inner(src)
      [] cls = "XTorus" -> CADTorus_from_openmc_surface_inner(cls, src)
      [] cls = "YTorus" -> CADTorus_from_openmc_surface_inner(cls, src)
      [] cls = "ZTorus" -> CADTorus_from_openmc_surface_inner(cls, src)

(***************************************************************************)
(* The inputs.                                                             *)
(***************************************************************************)
Coords == 0..MaxCoord
Offsets == (0 - MaxCoord)..MaxCoord
Radii == {1, 2}
Directions == { <<0, 0, 1>>, <<1, 1, 0>> }
\* r2 of a cone
Slopes == {1, 4}
\* (a, b, c) of a torus: equal and unequal minor radii
TorusRadii == { <<3, 1, 1>>, <<3, 1, 2>> }

\* the OpenMC surfaces handed to from_openmc_surface, per class
Sources(cls) ==
    CASE cls = "Plane" ->
           { [Blank("openmc") EXCEPT !.a = n[1], !.b = n[2], !.c = n[3], !.d = d] :
               n \in Normals, d \in Offsets }
      [] cls = "XPlane" -> { [Blank("openmc") EXCEPT !.x0 = o] : o \in Offsets }
      [] cls = "YPlane" -> { [Blank("openmc") EXCEPT !.y0 = o] : o \in Offsets }
      [] cls = "ZPlane" -> { [Blank("openmc") EXCEPT !.z0 = o] : o \in Offsets }
      [] cls = "Cylinder" ->
           { [Blank("openmc") EXCEPT !.r = r, !.x0 = x, !.y0 = y, !.z0 = z,
                                     !.dx = u[1], !.dy = u[2], !.dz = u[3]] :
               r \in Radii, x \in Coords, y \in Coords, z \in Coords, u \in Directions }
      [] cls = "XCylinder" ->
           { [Blank("openmc") EXCEPT !.r = r, !.y0 = y, !.z0 = z] :
               r \in Radii, y \in Coords, z \in Coords }
      [] cls = "YCylinder" ->
           { [Blank("openmc") EXCEPT !.r = r, !.x0 = x, !.z0 = z] :
               r \in Radii, x \in Coords, z \in Coords }
      [] cls = "ZCylinder" ->
           { [Blank("openmc") EXCEPT !.r = r, !.x0 = x, !.y0 = y] :
               r \in Radii, x \in Coords, y \in Coords }
      [] cls = "Sphere" ->
           { [Blank("openmc") EXCEPT !.r = r, !.x0 = x, !.y0 = y, !.z0 = z] :
               r \in Radii, x \in Coords, y \in Coords, z \in Coords }
      [] cls \in ConeKinds \cup {"Cone"} ->
           { [Blank("openmc") EXCEPT !.r2 = q, !.x0 = x, !.y0 = y, !.z0 = z] :
               q \in Slopes, x \in Coords, y \in Coords, z \in Coords }
      [] cls \in TorusKinds ->
           { [Blank("openmc") EXCEPT !.a = m[1], !.b = m[2], !.c = m[3],
                                     !.x0 = x, !.y0 = y, !.z0 = z] :
               m \in TorusRadii, x \in Coords, y \in Coords, z \in Coords }

\* node.side: the two markers of a half-space, and one that is neither
Sides == {"-", "+", "0"}
EntTypes == {"body", "volume"}
ExtentsSet == { <<10, 10, 10>>, <<10, 20, 30>> }
\* inner_world: None (the empty tuple here) or the three dimensions
InnerWorlds == { <<>>, <<4, 4, 6>>, <<5, 3, 8>> }

NoCall ==
    [ent_type |-> "", node |-> [side |-> ""], extents |-> <<>>,
     inner_world |-> <<>>, hex |-> FALSE, lastid |-> 0]

(***************************************************************************)
(* The state machine: one surface is translated, then emitted once.        *)
(***************************************************************************)
Init ==
    /\ surface = NoSurface
    /\ lastid \in 0..MaxLastId
    /\ call = NoCall
    /\ status = "start"
    /\ ids = NoId
    /\ cmds = <<>>

\* cls.from_openmc_surface(src)
FromOpenmcSurface ==
    /\ status = "start"
    /\ \E cls \in Classes : \E src \in Sources(cls) :
          IF cls = "Cone" /\ CADCone_from_openmc_surface(src)
          THEN /\ status' = "NotImplementedError"
               /\ surface' = surface
          ELSE /\ status' = "constructed"
               /\ surface' = CADSurface_from_openmc_surface(cls, src)
    /\ UNCHANGED <<lastid, call, ids, cmds>>

\* surface.to_cubit_surface(ent_type, node, extents, inner_world, hex)
ToCubitSurface ==
    /\ status = "constructed"
    /\ \E ent_type \in EntTypes, side \in Sides, extents \in ExtentsSet,
          inner_world \in InnerWorlds, hex \in BOOLEAN :
          LET node == [side |-> side]
              res == CADSurface_to_cubit_surface(surface, ent_type, node, extents,
                                                 inner_world, hex, lastid)
          IN  /\ call' = [ent_type |-> ent_type, node |-> node, extents |-> extents,
                          inner_world |-> inner_world, hex |-> hex, lastid |-> lastid]
              /\ status' = res.status
              /\ ids' = res.ids
              /\ cmds' = res.cmds
              /\ lastid' = res.lastid
    /\ UNCHANGED surface

Next == FromOpenmcSurface \/ ToCubitSurface

Spec == Init /\ [][Next]_vars

(***************************************************************************)
(* Reading an emitted script.                                              *)
(***************************************************************************)
Emitted == status \notin {"start", "constructed"}
Returned == status = "returned"
Count(ops) == Cardinality({i \in DOMAIN cmds : cmds[i].op \in ops})
Positions(ops) == {i \in DOMAIN cmds : cmds[i].op \in ops}
\* the id captured for the entity the command at position i creates
IdOf(i) ==
    IF i + 1 \in DOMAIN cmds /\ cmds[i + 1].op = "getid" THEN cmds[i + 1].a ELSE NoId
Creations == {"brick", "cylinder", "sphere", "torus", "frustum", "prism", "copy reflect"}
\* the booleans that clip a solid, and all booleans
Clippings == {"subtract", "intersect", "section"}
Booleans == Clippings \cup {"unite"}
AxisAligned == PlaneKinds \cup AxisCylinderKinds \cup ConeKinds \cup TorusKinds
\* what a command of the script says
IsBrick(c, x, y, z) == c.op = "brick" /\ c.v = << <<x, 1>>, <<y, 1>>, <<z, 1>> >>
IsWorldBrick(c) == IsBrick(c, call.extents[1], call.extents[2], call.extents[3])
IsCylinder(c, h, r) == c.op = "cylinder" /\ c.v = << <<h, 1>>, <<r, 1>> >>
IsSubtract(c, tool, from) == c.op = "subtract" /\ c.a = tool /\ c.b = from
IsIntersect(c, id1, id2) == c.op = "intersect" /\ c.a = id1 /\ c.b = id2
IsRotateAbout(c, id, axis, angle) ==
    c.op = "rotate" /\ c.a = id /\ c.s = axis /\ c.v = << <<angle, 1>> >>

(***************************************************************************)
(* C1                                                                      *)
(***************************************************************************)
\* C1 as stated: every emission of an axis-aligned plane, cylinder, cone or
\* torus performs exactly one boolean operation, a subtract on side "+", an
\* intersect or a section on side "-".
C1_OneBooleanOfExpectedType ==
    (Returned /\ surface.kind \in AxisAligned /\ call.node.side \in {"+", "-"}) =>
        /\ Count(Booleans) = 1
        /\ call.node.side = "+" => Count({"subtract"}) = 1
        /\ call.node.side = "-" => Count({"intersect", "section"}) = 1

\* C1 amended: an emission of an axis-aligned variant that returns never emits
\* an intersect; a plane emits exactly one section on either side and nothing
\* else; a cylinder, cone or torus emits exactly one subtract when the side is
\* not "-" and no clipping boolean when it is "-"; a cone emits one unite on
\* either side, the other variants none.
C1_ClippingBooleans ==
    (Returned /\ surface.kind \in AxisAligned) =>
        /\ Count({"intersect"}) = 0
        /\ surface.kind \in PlaneKinds =>
              Count({"section"}) = 1 /\ Count(Booleans) = 1
        /\ surface.kind \notin PlaneKinds =>
              /\ Count({"section"}) = 0
              /\ Count({"subtract"}) = (IF call.node.side = "-" THEN 0 ELSE 1)
              /\ Count({"unite"}) = (IF surface.kind \in ConeKinds THEN 1 ELSE 0)

\* a cylinder emitted on side "-": no boolean at all
C1_Witness ==
    /\ Returned /\ surface.kind \in AxisCylinderKinds
    /\ call.node.side = "-" /\ Count(Booleans) = 0

(***************************************************************************)
(* C2                                                                      *)
(***************************************************************************)
\* C2: a Z-cylinder emitted with side "+" and no inner world creates the
\* cylinder first, then a brick sized to the world extents, then exactly one
\* subtract of the cylinder's id from the brick's id, and returns the brick's
\* id, which is not the cylinder's.
C2_ZCylinderPositive ==
    (Returned /\ surface.kind = "ZCylinder" /\ call.node.side = "+"
              /\ call.inner_world = <<>>) =>
        \E i, j, k \in DOMAIN cmds :
            /\ i < j /\ j < k
            /\ Positions(Creations) = {i, j}
            /\ i = 1 /\ cmds[i].op = "cylinder"
            /\ IsWorldBrick(cmds[j])
            /\ Positions(Booleans) = {k}
            /\ IsSubtract(cmds[k], IdOf(i), IdOf(j))
            /\ IdOf(i) # NoId /\ IdOf(j) # NoId
            /\ ids = IdOf(j) /\ ids # IdOf(i)

C2_Witness ==
    /\ Returned /\ surface.kind = "ZCylinder" /\ call.node.side = "+"
    /\ call.inner_world = <<>> /\ call.hex
    /\ Count({"subtract"}) = 1 /\ Count({"move"}) = 1

HexPrismFirst ==
    \E i \in DOMAIN cmds :
        /\ Positions({"prism"}) = {i}
        /\ cmds[i].v[2] = <<6, 1>>
        /\ cmds[i].v[3][1] * 2 = call.inner_world[1] * cmds[i].v[3][2]
        /\ IdOf(i) # NoId
        /\ i + 2 \in DOMAIN cmds
        /\ IsRotateAbout(cmds[i + 2], IdOf(i), "z", 30)
        /\ Count({"brick"}) = 0

\* C4 as stated: a cylinder-family emission with inner-world dimensions and
\* the hex flag set creates a prism with sides 6 and radius half the first
\* inner-world dimension, rotates it by 30 degrees first, and creates no brick.
C4_HexPrismAlways ==
    (Returned /\ surface.kind \in CylinderKinds /\ Truthy(call.inner_world) /\ call.hex) =>
        HexPrismFirst

\* C4 amended: the same on the positive side (any side marker other than "-");
\* on side "-" the emission creates neither a prism nor a brick.
C4_HexPrismOnPositiveSide ==
    (Returned /\ surface.kind \in CylinderKinds /\ Truthy(call.inner_world) /\ call.hex) =>
        IF call.node.side # "-"
        THEN HexPrismFirst
        ELSE Count({"prism", "brick"}) = 0

C4_Witness ==
    /\ Returned /\ surface.kind = "XCylinder" /\ call.inner_world = <<5, 3, 8>>
    /\ call.hex /\ call.node.side = "+" /\ Count({"prism"}) = 1

HexWithoutInnerWorld ==
    Emitted /\ surface.kind \in CylinderKinds /\ call.hex /\ call.inner_world = <<>>

\* C6 as stated, on the side that asks for a clipping volume: a cylinder-family
\* emission with the hex flag set and no inner-world dimensions ends in an
\* error; it returns no command sequence built from another clipping volume.
C6_HexWithoutInnerWorldFails ==
    (HexWithoutInnerWorld /\ call.node.side = "+") => ~Returned

\* C6 amended: with no inner-world dimensions the hex flag is ignored.  The
\* X, Y and Z cylinders return: on a side other than "-" the script has no
\* prism and one brick, sized to the world extents, from which the cylinder
\* is subtracted and whose id is returned; on side "-" it has neither prism
\* nor brick.  The general cylinder returns on side "-" likewise, and on any
\* other side ends in the NameError of C7.
C6_HexFlagIgnored ==
    HexWithoutInnerWorld =>
        IF surface.kind = "Cylinder" /\ call.node.side # "-"
        THEN status = "NameError"
        ELSE /\ Returned
             /\ Count({"prism"}) = 0
             /\ IF call.node.side = "-"
                THEN Count({"brick"}) = 0
                ELSE \E j, k \in DOMAIN cmds :
                        /\ Positions({"brick"}) = {j}
                        /\ IsWorldBrick(cmds[j])
                        /\ Positions({"subtract"}) = {k}
                        /\ cmds[k].b = IdOf(j)
                        /\ ids = IdOf(j)

C6_Witness ==
    /\ HexWithoutInnerWorld /\ Returned /\ surface.kind = "YCylinder"
    /\ call.node.side = "+" /\ call.extents = <<10, 20, 30>>
    /\ Count({"brick"}) = 1

(***************************************************************************)
(* C7                                                                      *)
(***************************************************************************)
\* C7: the general cylinder emitted with the positive side and no inner world
\* returns, and its script creates a brick sized to the world extents from
\* which the cylinder is subtracted.
C7_GeneralCylinderUsesExtents ==
    (Emitted /\ surface.kind = "Cylinder" /\ call.node.side = "+"
             /\ call.inner_world = <<>>) =>
        /\ Returned
        /\ \E i, j, k \in DOMAIN cmds :
              /\ cmds[i].op = "cylinder"
              /\ IsWorldBrick(cmds[j])
              /\ IsSubtract(cmds[k], IdOf(i), IdOf(j))

(***************************************************************************)
(* C8                                                                      *)
(***************************************************************************)
\* C8: the script of a general plane ends with its only boolean, between the
\* cutter cube and the world-extents cube: a subtract of the cutter from the
\* world cube when the side is not "-", an intersect of the two when it is;
\* the world cube is created after every move and rotation of the cutter,
\* and the id returned is the world cube's, the solid the boolean leaves.
C8_PlaneBoolean ==
    (Returned /\ surface.kind = "Plane") =>
        \E i, j \in DOMAIN cmds :
            LET last == Len(cmds)
                edge == 2 * Max3(call.extents)
            IN  /\ Positions({"brick"}) = {i, j} /\ i < j
                /\ IsBrick(cmds[i], edge, edge, edge)
                /\ IsWorldBrick(cmds[j])
                /\ IdOf(i) # NoId /\ IdOf(j) # NoId /\ IdOf(i) # IdOf(j)
                /\ Positions(Booleans) = {last}
                /\ IF call.node.side # "-"
                   THEN IsSubtract(cmds[last], IdOf(i), IdOf(j))
                   ELSE IsIntersect(cmds[last], IdOf(i), IdOf(j))
                /\ \A m \in Positions({"move", "rotate"}) :
                      m < j /\ cmds[m].a = IdOf(i)
                /\ ids = IdOf(j)

\* a side marker that is neither "+" nor "-" is treated as positive
C8_Witness ==
    /\ Returned /\ surface.kind = "Plane" /\ call.node.side = "0"
    /\ cmds[Len(cmds)].op = "subtract" /\ Count({"rotate"}) = 1

(***************************************************************************)
(* C9                                                                      *)
(***************************************************************************)
PlaneNormal == <<surface.a, surface.b, surface.c>>

\* C9: the script of a general plane rotates the cutter if and only if the
\* angle between +z and the normal is more than 1e-6 degrees; the normal
\* (0, 0, 1) gives no rotation, a normal at 45 degrees exactly one, of angle
\* 45 within 1e-6; a rotation lies between the two moves of the cutter.
C9_RotationIffBeyondTolerance ==
    (Returned /\ surface.kind = "Plane") =>
        LET angle == AcosDegrees(PlaneNormal)
            rots == Positions({"rotate"})
            moves == Positions({"move"})
        IN  /\ Cardinality(rots) = (IF Abs(angle) > AbsTol THEN 1 ELSE 0)
            /\ PlaneNormal = <<0, 0, 1>> => rots = {}
            /\ PlaneNormal \in {<<1, 0, 1>>, <<0, 1, 1>>} =>
                  \A m \in rots :
                      LET q == cmds[m].v[1]
                      IN  q[2] = AngleUnit /\ Abs(q[1] - 45 * AngleUnit) <= AbsTol
            /\ Cardinality(moves) = 2
            /\ \A m \in rots : \E lo, hi \in moves : lo < m /\ m < hi

\* a normal tilted by less than the tolerance: no rotation
C9_Witness ==
    /\ Returned /\ surface.kind = "Plane"
    /\ AcosDegrees(PlaneNormal) > 0 /\ AcosDegrees(PlaneNormal) <= AbsTol
    /\ Count({"rotate"}) = 0

(***************************************************************************)
(* C10                                                                     *)
(***************************************************************************)
AxisOf(self) ==
    CASE self.kind = "XPlane" -> "x" [] self.kind = "YPlane" -> "y"
      [] self.kind = "ZPlane" -> "z"
OffsetOf(self) ==
    CASE self.kind = "XPlane" -> self.x0 [] self.kind = "YPlane" -> self.y0
      [] self.kind = "ZPlane" -> self.z0

\* C10: the script of an axis-aligned plane is a brick sized to the world
\* extents, the capture of its id, and one section of that brick with the
\* plane of the class's axis at the surface's offset; the section carries
\* "reverse" if and only if the side is "-", whatever the sign of the offset;
\* the id returned is the brick's.
C10_AxisPlaneSection ==
    (Returned /\ surface.kind \in PlaneKinds) =>
        /\ Len(cmds) = 3
        /\ IsWorldBrick(cmds[1])
        /\ cmds[2].op = "getid" /\ IdOf(1) # NoId
        /\ cmds[3].op = "section" /\ cmds[3].a = IdOf(1)
        /\ cmds[3].s = AxisOf(surface)
        /\ cmds[3].v = << <<OffsetOf(surface), 1>> >>
        /\ cmds[3].f = (IF call.node.side = "-" THEN "reverse" ELSE "")
        /\ ids = IdOf(1)

\* a plane at a negative offset emitted on side "+": no reversal
C10_Witness ==
    /\ Returned /\ surface.kind = "XPlane" /\ surface.x0 < 0
    /\ call.node.side = "+" /\ cmds[3].f = ""

(***************************************************************************)
(* C11                                                                     *)
(***************************************************************************)
\* the commands that place the solid: the moves, and the rotation onto the
\* direction of a general cylinder
Placements ==
    {p \in DOMAIN cmds :
        cmds[p].op = "move" \/ (cmds[p].op = "rotate" /\ cmds[p].s = "direction")}
\* the translation a class passes to move
PlacementOf(self) ==
    CASE self.kind = "XCylinder" -> <<0, self.y0, self.z0>>
      [] self.kind = "YCylinder" -> <<self.x0, 0, self.z0>>
      [] self.kind = "ZCylinder" -> <<self.x0, self.y0, 0>>
      [] OTHER -> <<self.x0, self.y0, self.z0>>

\* C11: in the script of a cylinder or torus variant the placement commands
\* are the tail of the script and all target the id returned; when the side
\* is not "-" they follow the one subtract and the id is the clipping solid's
\* (the solid subtracted from), when it is "-" the id is the raw primitive's;
\* a non-zero translation gives exactly one move, by that vector; the general
\* cylinder has one rotation onto its direction, before any move.
C11_PlacementLast ==
    (Returned /\ surface.kind \in CylinderKinds \cup TorusKinds) =>
        LET moves == Positions({"move"})
            rots == Placements \ moves
            t == PlacementOf(surface)
        IN  /\ \A p \in Placements :
                  /\ cmds[p].a = ids
                  /\ \A q \in DOMAIN cmds : q > p => q \in Placements
            /\ IF call.node.side # "-"
               THEN \E k \in DOMAIN cmds :
                       /\ Positions({"subtract"}) = {k}
                       /\ cmds[k].a = IdOf(1)
                       /\ ids = cmds[k].b /\ ids # IdOf(1)
                       /\ \A p \in Placements : k < p
               ELSE /\ cmds[1].op \in {"cylinder", "torus"}
                    /\ ids = IdOf(1)
            /\ Cardinality(moves) <= 1
            /\ t # <<0, 0, 0>> =>
                  \E m \in moves : cmds[m].v = << <<t[1], 1>>, <<t[2], 1>>, <<t[3], 1>> >>
            /\ IF surface.kind = "Cylinder"
               THEN \E r \in rots :
                       /\ rots = {r}
                       /\ cmds[r].dir = <<surface.dx, surface.dy, surface.dz>>
                       /\ \A m \in moves : r < m
               ELSE rots = {}

\* a general cylinder clipped by a hexagonal prism and placed off the origin
C11_Witness ==
    /\ Returned /\ surface.kind = "Cylinder" /\ call.node.side = "+"
    /\ call.hex /\ Truthy(call.inner_world)
    /\ cmds[Len(cmds)].op = "move" /\ cmds[Len(cmds) - 1].op = "rotate"
    /\ cmds[Len(cmds) - 2].op = "subtract"

(***************************************************************************)
(* C12                                                                     *)
(***************************************************************************)
Captures == Positions({"getid"})

\* C12: in every script returned, for every class, side and clipping option,
\* the command right after each creation command is an id capture, every
\* capture stands right after a creation command (one capture per creation),
\* the captures yield the counter's successive values in script order, and
\* the counter has advanced once per creation command.
C12_OneCapturePerCreation ==
    Returned =>
        /\ \A i \in Positions(Creations) :
              i + 1 \in DOMAIN cmds /\ cmds[i + 1].op = "getid"
        /\ \A i \in Captures : i > 1 /\ cmds[i - 1].op \in Creations
        /\ \A i \in Captures :
              cmds[i].a = call.lastid + Cardinality({j \in Captures : j <= i})
        /\ lastid = call.lastid + Count(Creations)

\* a cone on the positive side: frustum, mirrored copy and brick, each captured
C12_Witness ==
    /\ Returned /\ surface.kind \in ConeKinds /\ call.node.side = "+"
    /\ Count({"frustum"}) = 1 /\ Count({"copy reflect"}) = 1 /\ Count({"brick"}) = 1
    /\ Cardinality(Captures) = 3 /\ lastid = call.lastid + 3

(***************************************************************************)
(* C13                                                                     *)
(***************************************************************************)
\* the ids a command names
Refs(c) == {c.a, c.b} \ {NoId}
\* the id a boolean consumes: the tool of a subtract, the second operand of a
\* unite
Superseded(c) ==
    IF c.op \in {"subtract", "unite"} THEN {IF c.op = "subtract" THEN c.a ELSE c.b} ELSE {}
\* the ids that may name the solid a boolean leaves: the body subtracted
\* from, the first operand of a unite, the body sectioned; an intersect names
\* two bodies and supersedes neither
Survivors(c) ==
    CASE c.op = "subtract" -> {c.b}
      [] c.op \in {"unite", "section"} -> {c.a}
      [] c.op = "intersect" -> {c.a, c.b}

\* C13: in every script returned, an id consumed as the tool of a subtract or
\* as the second operand of a unite is named by no later command and is not
\* the id returned; when the script has a boolean, the id returned names the
\* solid its last boolean leaves.
C13_NoStaleIds ==
    Returned =>
        /\ \A k \in Positions(Booleans) : \A x \in Superseded(cmds[k]) :
              /\ x # ids
              /\ \A m \in DOMAIN cmds : m > k => x \notin Refs(cmds[m])
        /\ \A k \in Positions(Booleans) :
              (\A m \in Positions(Booleans) : m <= k) => ids \in Survivors(cmds[k])
        /\ ids # NoId

\* a cone on the positive side: the mirrored copy is united into the frustum,
\* the double cone is moved and then subtracted from the brick
C13_Witness ==
    /\ Returned /\ surface.kind = "XCone" /\ call.node.side = "+"
    /\ \E k, m \in DOMAIN cmds :
          /\ k < m /\ cmds[k].op = "unite" /\ cmds[m].op = "subtract"
          /\ cmds[m].a = cmds[k].a /\ ids = cmds[m].b
          /\ \E n \in DOMAIN cmds : k < n /\ n < m /\ cmds[n].op = "move"

====
